---- MODULE Spec2Model ----
(***************************************************************************)
(* A model of the copy-on-write trie of src/primer/trie.cpp.               *)
(*                                                                         *)
(* The heap is the sequence of all TrieNode objects ever allocated; a node *)
(* reference (a shared_ptr<const TrieNode>) is an index into the heap and  *)
(* 0 is nullptr.  A Trie (a version handle) is a root reference.           *)
(* Get, Put and Remove are translated statement by statement; each is one  *)
(* action of the specification.                                            *)
(***************************************************************************)
EXTENDS Integers, Sequences, FiniteSets, TLC

\* Number of Put/Remove calls of a behaviour.
MaxOps == 3

\* The keys Put and Remove are called with: the empty key, a key, and two
\* extensions of it that are siblings of each other.
Keys == {<<>>, <<"a">>, <<"a", "b">>, <<"a", "c">>}

\* The keys Get is called with: those and an extension of an extension,
\* which no Put ever stores.
ProbeKeys == Keys \cup {<<"a", "b", "c">>}

\* The value types Put and Get are instantiated with (trie.cpp:127-131).
Types == {"uint32_t", "uint64_t"}

\* The typed values the callers store.
PutArgs == {<<"uint32_t", 1>>, <<"uint32_t", 2>>, <<"uint64_t", 3>>}

\* nullptr, as a node reference and as the result of Get.
Null == 0
Absent == [found |-> FALSE, value |-> 0]
Found(v) == [found |-> TRUE, value |-> v]

\* Wrap-around of the unsigned loop index of the copy loops: size_t(0) - 1.
\* TLC's integers are 32 bits wide, so the largest of them stands for
\* SIZE_MAX; the loops only compare the index with the size of node_stack.
SIZE_MAX == 2147483647

\* calls holds the calls in progress of the specification whose calls run
\* step by step (SpecConc); the calls of Spec are atomic and it stays empty.
VARIABLES heap, versions, log, calls

vars == <<heap, versions, log, calls>>

(***************************************************************************)
(* Nodes.                                                                  *)
(***************************************************************************)

\* std::map<char, shared_ptr<const TrieNode>>: a function from the characters
\* that have an entry to node references (an entry may hold nullptr).
EmptyChildren == [c \in {} |-> Null]

\* A faulty children_[ch] = child: the map is replaced by the one entry.
SetChildOnly(children, ch, child) == [c \in {ch} |-> child]

\* children_[ch] = child : insert or overwrite the entry for ch.
SetChild(children, ch, child) ==
    [c \in (DOMAIN children) \cup {ch} |-> IF c = ch THEN child ELSE children[c]]

\* TrieNode(children): a plain node.
TrieNode(children) ==
    [children |-> children, is_value_node |-> FALSE, type |-> "none", value |-> 0]

\* TrieNodeWithValue<T>(children, value).
TrieNodeWithValue(children, type, value) ==
    [children |-> children, is_value_node |-> TRUE, type |-> type, value |-> value]

\* TrieNode::Clone / TrieNodeWithValue<T>::Clone: a shallow copy, the same
\* children references and the same value.
Clone(node) ==
    [children |-> node.children, is_value_node |-> node.is_value_node,
     type |-> node.type, value |-> node.value]

\* make_shared: the new object gets the next free reference.
Alloc(h, node) == Append(h, node)

\* cur->children_.find(ch) == end() ? nullptr : cur->children_.at(ch)
ChildOf(h, cur, ch) ==
    IF ch \in DOMAIN h[cur].children THEN h[cur].children[ch] ELSE Null

(***************************************************************************)
(* Trie::Get                                                               *)
(***************************************************************************)

\* The for loop of Get: the node the key leads to, or Null.
RECURSIVE GetWalk(_, _, _, _)
GetWalk(h, node, key, i) ==
    IF i > Len(key) THEN node
    ELSE IF node = Null \/ key[i] \notin DOMAIN h[node].children THEN Null
    ELSE GetWalk(h, h[node].children[key[i]], key, i + 1)

\* A faulty cast: a static_cast, which succeeds on every value node.
DynamicCastAnyValue(node, T) == node.is_value_node

\* dynamic_cast<const TrieNodeWithValue<T>*>: succeeds when the node was
\* built as a TrieNodeWithValue<T>.
DynamicCast(node, T) == node.is_value_node /\ node.type = T

Get(h, root, key, T) ==
    LET node == GetWalk(h, root, key, 1) IN
    IF node = Null \/ ~h[node].is_value_node THEN Absent
    ELSE IF ~DynamicCast(h[node], T) THEN Absent
    ELSE Found(h[node].value)

(***************************************************************************)
(* The parts Put and Remove share.                                         *)
(***************************************************************************)

\* "1. store old path": the while loop of Put and of Remove.  idx counts the
\* characters consumed (key[idx] of the code is key[idx + 1] here).
RECURSIVE Walk(_, _, _, _, _)
Walk(h, cur, key, idx, node_stack) ==
    IF idx < Len(key) /\ cur # Null
    THEN Walk(h, ChildOf(h, cur, key[idx + 1]), key, idx + 1, Append(node_stack, cur))
    ELSE [node_stack |-> node_stack, cur |-> cur, idx |-> idx]

\* i-- on a size_t.
DecSize(i) == IF i = 0 THEN SIZE_MAX ELSE i - 1

\* A faulty round of the copy loop: no Clone, the entry of the node of the
\* source version is written.
CopyStepInPlace(h, old, ch, child_node) ==
    [heap |-> [h EXCEPT ![old].children = SetChild(@, ch, child_node)],
     cur |-> old]

\* A faulty round of the copy loop: a child off the path is copied too,
\* not shared.
CopyStepCopiesSibling(h, old, ch, child_node) ==
    LET sibs == {c \in DOMAIN h[old].children \ {ch} : h[old].children[c] # Null} IN
    IF sibs = {}
    THEN LET h1 == Alloc(h, Clone(h[old]))
             cur == Len(h1)
         IN  [heap |-> [h1 EXCEPT ![cur].children = SetChild(@, ch, child_node)],
              cur |-> cur]
    ELSE LET c == CHOOSE x \in sibs : TRUE
             h1 == Alloc(h, Clone(h[h[old].children[c]]))
             h2 == Alloc(h1, Clone(h[old]))
             cur == Len(h2)
         IN  [heap |-> [h2 EXCEPT ![cur].children =
                                      SetChild(SetChild(@, c, Len(h1)), ch, child_node)],
              cur |-> cur]

\* One round of the copy loop: clone node_stack[i], then write the entry
\* children_[key[i]] of the clone through the const_cast.
CopyStep(h, old, ch, child_node) ==
    LET h1 == Alloc(h, Clone(h[old]))
        cur == Len(h1)
    IN  [heap |-> [h1 EXCEPT ![cur].children = SetChild(@, ch, child_node)],
         cur |-> cur]

\* "copy same node" / "copy along path":
\* for (size_t i = node_stack.size() - 1; i < node_stack.size(); i--).
RECURSIVE CopyPath(_, _, _, _, _)
CopyPath(h, node_stack, key, i, cur) ==
    IF i < Len(node_stack)
    THEN LET step == CopyStep(h, node_stack[i + 1], key[i + 1], cur)
         IN  CopyPath(step.heap, node_stack, key, DecSize(i), step.cur)
    ELSE [heap |-> h, root |-> cur]

(***************************************************************************)
(* Trie::Put                                                               *)
(***************************************************************************)

\* A faulty leaf: a node that is a value node already keeps its value type.
PutLeafKeepsType(h, cur, T, value) ==
    IF cur # Null
    THEN TrieNodeWithValue(h[cur].children,
                           IF h[cur].is_value_node THEN h[cur].type ELSE T, value)
    ELSE TrieNodeWithValue(EmptyChildren, T, value)

\* A faulty leaf: a plain TrieNode, the value is not attached.
PutLeafPlain(h, cur, T, value) ==
    IF cur # Null THEN TrieNode(h[cur].children) ELSE TrieNode(EmptyChildren)

\* A faulty leaf: the children of the node at the key are not carried over.
PutLeafDropsChildren(h, cur, T, value) ==
    TrieNodeWithValue(EmptyChildren, T, value)

\* "2.1 create leaf node": the value node, with the children of the node
\* that is at the key already.
PutLeaf(h, cur, T, value) ==
    IF cur # Null
    THEN TrieNodeWithValue(h[cur].children, T, value)
    ELSE TrieNodeWithValue(EmptyChildren, T, value)

\* Faulty inner nodes: the character is taken at idx, not at key_size.
RECURSIVE PutInnerWrongChar(_, _, _, _, _)
PutInnerWrongChar(h, key, idx, key_size, child_node) ==
    IF idx < key_size
    THEN LET h1 == Alloc(h, TrieNode(SetChild(EmptyChildren, key[idx + 1], child_node)))
         IN  PutInnerWrongChar(h1, key, idx, key_size - 1, Len(h1))
    ELSE [heap |-> h, child_node |-> child_node]

\* "2.2 create diff inner nodes": while (idx < key_size), from the end of
\* the key back to where the old path ended.
RECURSIVE PutInner(_, _, _, _, _)
PutInner(h, key, idx, key_size, child_node) ==
    IF idx < key_size
    THEN LET h1 == Alloc(h, TrieNode(SetChild(EmptyChildren, key[key_size], child_node)))
         IN  PutInner(h1, key, idx, key_size - 1, Len(h1))
    ELSE [heap |-> h, child_node |-> child_node]

\* Put<T>(key, value) on the trie with root root_: the heap after the call
\* and the root of the returned Trie.
PutOp(h, root_, key, T, value) ==
    LET w     == Walk(h, root_, key, 0, <<>>)
        h1    == Alloc(h, PutLeaf(h, w.cur, T, value))
        inner == PutInner(h1, key, w.idx, Len(key), Len(h1))
    IN  CopyPath(inner.heap, w.node_stack, key,
                 DecSize(Len(w.node_stack)), inner.child_node)

(***************************************************************************)
(* Trie::Remove                                                            *)
(***************************************************************************)

\* A faulty early return: the test of is_value_node_ is inverted.
RemoveMissesInverted(h, key, w) ==
    w.idx # Len(key) \/ w.cur = Null \/ h[w.cur].is_value_node

\* A faulty early return: is_value_node_ is not tested.
RemoveMissesNoValueCheck(h, key, w) ==
    w.idx # Len(key) \/ w.cur = Null

\* The early return of Remove: the key is not in the trie.
RemoveMisses(h, key, w) ==
    w.idx # Len(key) \/ w.cur = Null \/ ~h[w.cur].is_value_node

\* A faulty end node: always nullptr, the children of the node are dropped.
EndNodeDropsChildren(h, cur) == [heap |-> h, end_node |-> Null]

\* "2. create end node": nullptr when the node has no children entry, else a
\* plain node with the same children.  The heap after it and end_node.
EndNode(h, cur) ==
    IF DOMAIN h[cur].children = {}
    THEN [heap |-> h, end_node |-> Null]
    ELSE [heap |-> Alloc(h, TrieNode(h[cur].children)), end_node |-> Len(h) + 1]

RemoveOp(h, root_, key) ==
    LET w == Walk(h, root_, key, 0, <<>>) IN
    IF RemoveMisses(h, key, w) THEN [heap |-> h, root |-> root_]
    ELSE LET e == EndNode(h, w.cur)
         IN  CopyPath(e.heap, w.node_stack, key,
                      DecSize(Len(w.node_stack)), e.end_node)

(***************************************************************************)
(* The specification: callers hold every Trie ever returned and call Put   *)
(* and Remove on any of them.                                              *)
(***************************************************************************)

\* versions[1] is the empty Trie; versions[i + 1] is what call log[i] returned.
Init ==
    /\ heap = <<>>
    /\ versions = <<Null>>
    /\ log = <<>>
    /\ calls = <<>>

Put(hd, key, arg) ==
    /\ Len(log) < MaxOps
    /\ LET r == PutOp(heap, versions[hd], key, arg[1], arg[2]) IN
       /\ heap' = r.heap
       /\ versions' = Append(versions, r.root)
       /\ log' = Append(log, [kind |-> "put", hd |-> hd, key |-> key,
                              type |-> arg[1], value |-> arg[2], base |-> Len(heap)])
    /\ UNCHANGED calls

Remove(hd, key) ==
    /\ Len(log) < MaxOps
    /\ LET r == RemoveOp(heap, versions[hd], key) IN
       /\ heap' = r.heap
       /\ versions' = Append(versions, r.root)
       /\ log' = Append(log, [kind |-> "remove", hd |-> hd, key |-> key,
                              type |-> "none", value |-> 0, base |-> Len(heap)])
    /\ UNCHANGED calls

Next ==
    \/ \E hd \in 1..Len(versions), key \in Keys, arg \in PutArgs : Put(hd, key, arg)
    \/ \E hd \in 1..Len(versions), key \in Keys : Remove(hd, key)

Spec == Init /\ [][Next]_vars

(***************************************************************************)
(* What the properties speak of.                                           *)
(***************************************************************************)

\* The last call, the root of the Trie it was made on, and the root of the
\* Trie it returned.
Called == Len(log) > 0
Last == log[Len(log)]
Src == versions[Last.hd]
Res == versions[Len(versions)]

\* The node a key leads to from a root (Null when there is none).
NodeAt(h, root, key) == GetWalk(h, root, key, 1)

\* The first d characters of a key.
Prefix(key, d) == SubSeq(key, 1, d)

\* A key holds a value in the trie with this root.
Holds(h, root, key) ==
    LET n == NodeAt(h, root, key) IN n # Null /\ h[n].is_value_node

\* What every Get on a trie answers.
Obs(h, root) == [q \in ProbeKeys \X Types |-> Get(h, root, q[1], q[2])]

\* The nodes of the trie with this root.
RECURSIVE Reach(_, _)
Reach(h, n) ==
    IF n = Null THEN {}
    ELSE {n} \cup UNION {Reach(h, h[n].children[c]) : c \in DOMAIN h[n].children}

\* The node has a child that is a node.
HasPresentChild(node) == \E c \in DOMAIN node.children : node.children[c] # Null

\* The nodes of the returned trie that lie on the path of the key.
PathNodes(h, root, key) == {NodeAt(h, root, Prefix(key, d)) : d \in 0..Len(key)} \ {Null}

(***************************************************************************)
(* The claims.                                                             *)
(***************************************************************************)

\* C1: after Put<T>(key, value) on any version, Get<T>(key) on the returned
\* version gives value.
C1_GetAfterPut ==
    (Called /\ Last.kind = "put") =>
        Get(heap, Res, Last.key, Last.type) = Found(Last.value)

\* A Put of the empty key on a trie that is not empty, and a Put of a key of
\* two characters on a trie that has its first character only.
C1_Witness ==
    /\ Called /\ Last.kind = "put"
    /\ \/ Last.key = <<>> /\ Src # Null
       \/ Last.key = <<"a", "b">> /\ NodeAt(heap, Src, <<"a">>) # Null
                                  /\ NodeAt(heap, Src, <<"a", "b">>) = Null

\* C2: Put(key) changes the answer of Get for no other key, whatever the
\* requested type: proper prefixes, proper extensions and siblings included.
C2_PutFrame ==
    (Called /\ Last.kind = "put") =>
        \A k \in ProbeKeys \ {Last.key}, T \in Types :
            Get(heap, Src, k, T) = Get(heap, Res, k, T)

\* A Put of "a" on a trie that holds the empty key, "ab" and "ac".
C2_Witness ==
    /\ Called /\ Last.kind = "put" /\ Last.key = <<"a">>
    /\ Holds(heap, Src, <<>>)
    /\ Holds(heap, Src, <<"a", "b">>)
    /\ Holds(heap, Res, <<"a", "b">>)

\* C3: Remove(key) changes the answer of Get for no other key, whatever the
\* requested type.
C3_RemoveFrame ==
    (Called /\ Last.kind = "remove") =>
        \A k \in ProbeKeys \ {Last.key}, T \in Types :
            Get(heap, Src, k, T) = Get(heap, Res, k, T)

\* A Remove of a key that is stored, beside a stored extension or a stored
\* prefix of it.
C3_Witness ==
    /\ Called /\ Last.kind = "remove" /\ Holds(heap, Src, Last.key)
    /\ \E k \in Keys \ {Last.key} : Holds(heap, Src, k) /\ Holds(heap, Res, k)

\* C4: a call changes no version returned before: the handle keeps its root,
\* every node reachable from it keeps its children, its value flag and its
\* value, and every Get on it answers as before.
C4_VersionsImmutable ==
    [][/\ \A i \in DOMAIN versions : versions'[i] = versions[i]
       /\ \A r \in {versions[i] : i \in DOMAIN versions} :
             /\ \A n \in Reach(heap, r) : heap'[n] = heap[n]
             /\ \A k \in ProbeKeys, T \in Types :
                   Get(heap', r, k, T) = Get(heap, r, k, T)]_vars

\* A call that cloned the nodes of a path of an earlier version.
C4_Witness ==
    /\ Called /\ Src # Null /\ Len(Last.key) > 0
    /\ Res # Src
    /\ NodeAt(heap, Src, Last.key) # Null

\* C5: Put(key, value) followed by Remove(key) on the returned version gives
\* a version where Get(key) is absent for every type and every other key
\* answers as in the version the Put was made on.
C5_PutRemoveRoundTrip ==
    \A i \in DOMAIN log, j \in DOMAIN log :
        ( /\ log[i].kind = "put" /\ log[j].kind = "remove"
          /\ log[j].hd = i + 1 /\ log[j].key = log[i].key ) =>
            \A T \in Types :
                /\ Get(heap, versions[j + 1], log[i].key, T) = Absent
                /\ \A k \in ProbeKeys \ {log[i].key} :
                      Get(heap, versions[j + 1], k, T)
                          = Get(heap, versions[log[i].hd], k, T)

\* A Put then Remove of the same key on a trie that holds other keys.
C5_Witness ==
    \E i \in DOMAIN log, j \in DOMAIN log :
        /\ log[i].kind = "put" /\ log[j].kind = "remove"
        /\ log[j].hd = i + 1 /\ log[j].key = log[i].key
        /\ \E k \in Keys \ {log[i].key} : Holds(heap, versions[log[i].hd], k)

\* C6: a key that holds a value stored with type T answers Get<U> with absent
\* for every other type U, in every version (each version is the newest one
\* in the state after the call that returned it).
C6_WrongTypeIsMiss ==
    /\ (Called /\ Last.kind = "put") =>
           \A U \in Types \ {Last.type} : Get(heap, Res, Last.key, U) = Absent
    /\ \A k \in ProbeKeys :
           LET n == NodeAt(heap, Res, k) IN
           (n # Null /\ heap[n].is_value_node) =>
               \A U \in Types \ {heap[n].type} : Get(heap, Res, k, U) = Absent

\* A version that holds values of both types.
C6_Witness ==
    \E i \in DOMAIN versions, k1 \in Keys, k2 \in Keys :
        /\ Get(heap, versions[i], k1, "uint32_t").found
        /\ Get(heap, versions[i], k2, "uint64_t").found

\* C7: Remove of a key that holds no value (not matched, no node, or a node
\* without value) returns the root it was called on, allocates no node and
\* answers every Get as before.
C7_RemoveAbsentIsNoOp ==
    (Called /\ Last.kind = "remove" /\ ~Holds(heap, Src, Last.key)) =>
        /\ Res = Src
        /\ Len(heap) = Last.base
        /\ Obs(heap, Res) = Obs(heap, Src)

\* A Remove of a key whose node is there, with children, but has no value.
C7_Witness ==
    /\ Called /\ Last.kind = "remove"
    /\ NodeAt(heap, Src, Last.key) # Null
    /\ ~Holds(heap, Src, Last.key)
    /\ HasPresentChild(heap[NodeAt(heap, Src, Last.key)])

\* The call changed the trie: a Put, or a Remove of a key that holds a value.
Changing == Called /\ (Last.kind = "put" \/ Holds(heap, Src, Last.key))

\* C8: a Put, or a Remove of a stored key, allocates nodes on the path of
\* the key only, at most one for each depth; the children of the source
\* path nodes that are off the path, and the children of the source node at
\* the key, are the same node objects in the returned version.
C8_StructuralSharing ==
    Changing =>
        /\ (Last.base + 1)..Len(heap) \subseteq PathNodes(heap, Res, Last.key)
        /\ Reach(heap, Res) \ Reach(heap, Src) \subseteq PathNodes(heap, Res, Last.key)
        /\ Len(heap) - Last.base <= Len(Last.key) + 1
        /\ \A d \in 0..Len(Last.key) :
              LET n1 == NodeAt(heap, Src, Prefix(Last.key, d))
                  n2 == NodeAt(heap, Res, Prefix(Last.key, d))
              IN  n1 # Null =>
                    \A c \in DOMAIN heap[n1].children :
                        ( /\ heap[n1].children[c] # Null
                          /\ (d < Len(Last.key) => c # Last.key[d + 1]) ) =>
                            /\ n2 # Null
                            /\ c \in DOMAIN heap[n2].children
                            /\ heap[n2].children[c] = heap[n1].children[c]

\* A call on "a" where the root has another child to share and the node at
\* "a" has children to keep.
C8_Witness ==
    /\ Changing /\ Last.key = <<"a">>
    /\ NodeAt(heap, Src, <<"a", "b">>) # Null
    /\ NodeAt(heap, Res, <<"a", "b">>) = NodeAt(heap, Src, <<"a", "b">>)

\* The calls of the scenario.
IsPut(e, hd, key, value) ==
    e.kind = "put" /\ e.hd = hd /\ e.key = key /\ e.value = value

ScenarioPuts ==
    /\ Len(log) >= 3
    /\ IsPut(log[1], 1, <<"a">>, 1)
    /\ IsPut(log[2], 2, <<"a", "b">>, 2)
    /\ IsPut(log[3], 3, <<"a", "c">>, 3)

\* Get(key) = value on a trie, with the type the value was stored with.
Gives(h, root, key, T, value) ==
    /\ Get(h, root, key, T) = Found(value)
    /\ \A U \in Types \ {T} : Get(h, root, key, U) = Absent

AfterRemoveAB(h, root) ==
    /\ \A T \in Types : Get(h, root, <<"a", "b">>, T) = Absent
    /\ Gives(h, root, <<"a">>, log[1].type, 1)
    /\ Gives(h, root, <<"a", "c">>, log[3].type, 3)

\* C9: from the empty trie, Put("a",1), Put("ab",2), Put("ac",3) give
\* Get("a")=1, Get("ab")=2, Get("ac")=3 and Get("abc") absent; Remove("ab")
\* on that version gives Get("ab") absent, Get("a")=1 and Get("ac")=3.
C9_Scenario ==
    ScenarioPuts =>
        /\ Gives(heap, versions[4], <<"a">>, log[1].type, 1)
        /\ Gives(heap, versions[4], <<"a", "b">>, log[2].type, 2)
        /\ Gives(heap, versions[4], <<"a", "c">>, log[3].type, 3)
        /\ \A T \in Types : Get(heap, versions[4], <<"a", "b", "c">>, T) = Absent
        /\ LET r == RemoveOp(heap, versions[4], <<"a", "b">>)
           IN  AfterRemoveAB(r.heap, r.root)
        /\ \A j \in DOMAIN log :
              (log[j].kind = "remove" /\ log[j].hd = 4 /\ log[j].key = <<"a", "b">>)
                  => AfterRemoveAB(heap, versions[j + 1])

\* The three Puts of the scenario have been made.
C9_Witness ==
    ScenarioPuts /\ Len(versions) = 4 /\ Holds(heap, versions[4], <<"a", "c">>)

\* C10: in every version, no node but the root is without a present child
\* and without a value.
C10_NoEmptyNode ==
    \A i \in DOMAIN versions :
        \A n \in Reach(heap, versions[i]) \ {versions[i]} :
            HasPresentChild(heap[n]) \/ heap[n].is_value_node

\* C11: when the node at the removed key had no children, the cloned parent
\* has no entry for the last character of the key; so every entry of every
\* children mapping of every version refers to a node.
C11_RemovePrunesEntry ==
    /\ ( /\ Called /\ Last.kind = "remove" /\ Len(Last.key) > 0
         /\ Holds(heap, Src, Last.key)
         /\ DOMAIN heap[NodeAt(heap, Src, Last.key)].children = {} ) =>
           LET parent == NodeAt(heap, Res, Prefix(Last.key, Len(Last.key) - 1))
           IN  parent # Null => Last.key[Len(Last.key)] \notin DOMAIN heap[parent].children
    /\ \A n \in Reach(heap, Res) :
           \A c \in DOMAIN heap[n].children : heap[n].children[c] # Null

\* The key is the only one that holds a value in the trie.
OnlyKey(h, root, key) ==
    Holds(h, root, key) /\ \A k \in ProbeKeys \ {key} : ~Holds(h, root, k)

\* C12: Remove of the only key that holds a value returns the empty trie,
\* a version whose root is absent.
C12_RemoveLastKeyGivesEmpty ==
    (Called /\ Last.kind = "remove" /\ OnlyKey(heap, Src, Last.key)) => Res = Null

\* C13: Remove(k) on a version where k holds a value puts, at the position of
\* k, a plain node with the same children when the node had a present child,
\* and no node when it had none; the empty key included.  Stated of the
\* Remove of every stored key of the newest version.
C13_DemoteOrPrune ==
    \A k \in Keys :
        Holds(heap, Res, k) =>
            LET n1 == NodeAt(heap, Res, k)
                r  == RemoveOp(heap, Res, k)
                n2 == NodeAt(r.heap, r.root, k)
            IN  IF HasPresentChild(heap[n1])
                THEN /\ n2 # Null
                     /\ ~r.heap[n2].is_value_node
                     /\ r.heap[n2].children = heap[n1].children
                ELSE n2 = Null

\* The type of the value a key holds.
TypeAt(h, root, key) == h[NodeAt(h, root, key)].type

\* C14: Put<U>(k, w) on a version where k holds a value of another type T
\* gives a version where Get<U>(k) is w and Get<T>(k) is absent.
C14_PutReplacesType ==
    ( /\ Called /\ Last.kind = "put" /\ Holds(heap, Src, Last.key)
      /\ TypeAt(heap, Src, Last.key) # Last.type ) =>
        /\ Get(heap, Res, Last.key, Last.type) = Found(Last.value)
        /\ Get(heap, Res, Last.key, TypeAt(heap, Src, Last.key)) = Absent
        /\ Get(heap, Src, Last.key, TypeAt(heap, Src, Last.key)).found

\* A Put of a uint64_t on a key that holds a uint32_t, the node having a child.
C14_Witness ==
    /\ Called /\ Last.kind = "put" /\ Last.type = "uint64_t"
    /\ Holds(heap, Src, Last.key) /\ TypeAt(heap, Src, Last.key) = "uint32_t"
    /\ HasPresentChild(heap[NodeAt(heap, Src, Last.key)])

\* The abstract map of version v: the map of the version the call was made
\* on, with the entry of the key set by a Put and deleted by a Remove.
RECURSIVE MapOf(_)
MapOf(v) ==
    IF v = 1 THEN [k \in {} |-> <<>>]
    ELSE LET e == log[v - 1]
             m == MapOf(e.hd)
         IN  IF e.kind = "put"
             THEN [k \in DOMAIN m \cup {e.key} |->
                      IF k = e.key THEN <<e.type, e.value>> ELSE m[k]]
             ELSE [k \in DOMAIN m \ {e.key} |-> m[k]]

\* What Get<T>(k) answers on the abstract map.
MapGet(m, k, T) ==
    IF k \in DOMAIN m /\ m[k][1] = T THEN Found(m[k][2]) ELSE Absent

\* C18: after every call, Get<T>(k) on the returned version answers as the
\* abstract map does, for every key and type.
C18_RefinesMap ==
    LET m == MapOf(Len(versions)) IN
    \A k \in ProbeKeys, T \in Types : Get(heap, Res, k, T) = MapGet(m, k, T)

\* Two Puts of different keys and a Remove of one of them, each on the
\* version the call before returned: the map has one key left.
C18_Witness ==
    /\ Len(log) = 3 /\ log[2].hd = 2 /\ log[3].hd = 3
    /\ log[3].kind = "remove" /\ Holds(heap, versions[3], log[3].key)
    /\ Cardinality(DOMAIN MapOf(4)) = 1

(***************************************************************************)
(* The calls step by step: two threads each run one Put or Remove on the   *)
(* same source version while a third thread runs a Get on any version      *)
(* returned so far.  A step is one loop round or one statement group of    *)
(* trie.cpp; the heap is shared, the other variables of a call are local.  *)
(***************************************************************************)

Writers == {"w1", "w2"}
Reader == "r"

\* The keys of the concurrent calls.
ConcKeys == {<<>>, <<"a">>, <<"a", "b">>}

\* The source versions the concurrent calls start from, each built by calls
\* that ran alone: the empty trie, a trie with "ab", a trie with "a" and
\* "ab", and a trie from which "ab" was removed again.
SetupCalls ==
    { <<>>,
      << <<"put", <<"a", "b">>, "uint32_t", 2>> >>,
      << <<"put", <<"a">>, "uint32_t", 2>>, <<"put", <<"a", "b">>, "uint32_t", 2>> >>,
      << <<"put", <<"a", "b">>, "uint32_t", 2>>, <<"remove", <<"a", "b">> >> >> }

RECURSIVE Build(_)
Build(ops) ==
    IF ops = <<>> THEN [heap |-> <<>>, root |-> Null]
    ELSE LET t  == Build(SubSeq(ops, 1, Len(ops) - 1))
             op == ops[Len(ops)]
         IN  IF op[1] = "put" THEN PutOp(t.heap, t.root, op[2], op[3], op[4])
             ELSE RemoveOp(t.heap, t.root, op[2])

\* What each thread may call: Put of a value of its own, or Remove.
WriterCalls(t) ==
    LET arg == IF t = "w1" THEN <<"uint32_t", 1>> ELSE <<"uint64_t", 3>> IN
    {[op |-> "put", key |-> k, type |-> arg[1], value |-> arg[2]] : k \in ConcKeys}
        \cup {[op |-> "remove", key |-> k, type |-> "none", value |-> 0] : k \in ConcKeys}

\* The local variables of a call at its entry (trie.cpp:14, 41-46, 89-92).
Entry(call, root_, pc) ==
    [op |-> call.op, key |-> call.key, type |-> call.type, value |-> call.value,
     root |-> root_, pc |-> pc, cur |-> root_, idx |-> 0, key_size |-> Len(call.key),
     node_stack |-> <<>>, child_node |-> Null, i |-> 0, result |-> Absent,
     walks |-> 0, copies |-> 0, rebuilt |-> FALSE, mine |-> {}, expect |-> Absent]

NoCall == [op |-> "none", key |-> <<>>, type |-> "none", value |-> 0]

InitConc ==
    \E setup \in SetupCalls, c1 \in WriterCalls("w1"), c2 \in WriterCalls("w2") :
        LET src == Build(setup) IN
        /\ heap = src.heap
        /\ versions = <<src.root>>
        /\ log = <<>>
        /\ calls = [src |-> src,
                    t |-> [t \in Writers \cup {Reader} |->
                              IF t = "w1" THEN Entry(c1, src.root, "walk")
                              ELSE IF t = "w2" THEN Entry(c2, src.root, "walk")
                              ELSE Entry(NoCall, Null, "idle")]]

\* One test of "while (idx < key_size && cur)" and, when it holds, one round
\* of the loop; when it fails, on to the next statement.
WalkStep(h, c) ==
    IF c.idx < c.key_size /\ c.cur # Null
    THEN [c EXCEPT !.idx = @ + 1,
                   !.node_stack = Append(@, c.cur),
                   !.cur = ChildOf(h, c.cur, c.key[c.idx + 1]),
                   !.walks = @ + 1]
    ELSE [c EXCEPT !.pc = IF c.op = "put" THEN "leaf" ELSE "check"]

\* Put 2.1: the leaf node is allocated; child_node = leaf_node.
LeafStep(h, c) ==
    LET h1 == Alloc(h, PutLeaf(h, c.cur, c.type, c.value)) IN
    [heap |-> h1,
     c |-> [c EXCEPT !.child_node = Len(h1), !.mine = @ \cup {Len(h1)}, !.pc = "inner"]]

\* Put 2.2: one test of "while (idx < key_size)" and one round; when the
\* test fails, "cur = child_node" and the initialisation of the copy loop.
InnerStep(h, c) ==
    IF c.idx < c.key_size
    THEN LET h1 == Alloc(h, TrieNode(SetChild(EmptyChildren, c.key[c.key_size],
                                              c.child_node)))
         IN  [heap |-> h1,
              c |-> [c EXCEPT !.key_size = @ - 1, !.cur = Len(h1),
                              !.child_node = Len(h1), !.mine = @ \cup {Len(h1)}]]
    ELSE [heap |-> h,
          c |-> [c EXCEPT !.cur = c.child_node, !.i = DecSize(Len(c.node_stack)),
                          !.rebuilt = TRUE, !.pc = "copy"]]

\* Remove: the test of the early return; "return *this" hands out root_.
CheckStep(h, c) ==
    IF RemoveMisses(h, c.key, c)
    THEN [c EXCEPT !.cur = c.root, !.pc = "ret"]
    ELSE [c EXCEPT !.pc = "end"]

\* Remove 2 and the initialisation of the copy loop.
EndStep(h, c) ==
    LET e == EndNode(h, c.cur) IN
    [heap |-> e.heap,
     c |-> [c EXCEPT !.child_node = e.end_node, !.cur = e.end_node,
                     !.i = DecSize(Len(c.node_stack)), !.rebuilt = TRUE,
                     !.mine = IF e.end_node = Null THEN @ ELSE @ \cup {e.end_node},
                     !.pc = "copy"]]

\* A faulty clone: the node of the source version itself is taken.
CloneNodeInPlace(h, old) == [heap |-> h, cur |-> old]

\* cur = shared_ptr<const TrieNode>(node_stack[i]->Clone()).
CloneNode(h, old) == [heap |-> Alloc(h, Clone(h[old])), cur |-> Len(h) + 1]

\* One test of "i < node_stack.size()" and, when it holds, the clone of
\* node_stack[i]; when it fails, the loop is left.
CloneStep(h, c) ==
    IF c.i < Len(c.node_stack)
    THEN LET n == CloneNode(h, c.node_stack[c.i + 1])
         IN  [heap |-> n.heap,
              c |-> [c EXCEPT !.cur = n.cur, !.mine = @ \cup {n.cur}, !.pc = "link"]]
    ELSE [heap |-> h, c |-> [c EXCEPT !.pc = "ret"]]

\* A faulty write: the entry of node_stack[i], a node of the source version,
\* is written, not the entry of its clone.
LinkStepWritesSource(h, c) ==
    [heap |-> [h EXCEPT ![c.node_stack[c.i + 1]].children =
                            SetChild(@, c.key[c.i + 1], c.child_node)],
     c |-> [c EXCEPT !.child_node = c.cur, !.i = DecSize(c.i), !.copies = @ + 1,
                     !.pc = "copy"]]

\* A faulty end of the round: i is not decremented.
LinkStepNoDec(h, c) ==
    [heap |-> [h EXCEPT ![c.cur].children = SetChild(@, c.key[c.i + 1], c.child_node)],
     c |-> [c EXCEPT !.child_node = c.cur, !.copies = @ + 1, !.pc = "copy"]]

\* The write through the const_cast, "child_node = cur" and "i--".
LinkStep(h, c) ==
    [heap |-> [h EXCEPT ![c.cur].children = SetChild(@, c.key[c.i + 1], c.child_node)],
     c |-> [c EXCEPT !.child_node = c.cur, !.i = DecSize(c.i), !.copies = @ + 1,
                     !.pc = "copy"]]

\* One round of the for loop of Get, or the statements after the loop.
GetStep(h, c) ==
    IF c.idx < Len(c.key)
    THEN IF c.cur = Null \/ c.key[c.idx + 1] \notin DOMAIN h[c.cur].children
         THEN [c EXCEPT !.result = Absent, !.pc = "done"]
         ELSE [c EXCEPT !.cur = h[c.cur].children[c.key[c.idx + 1]],
                        !.idx = @ + 1, !.walks = @ + 1]
    ELSE [c EXCEPT !.pc = "done",
                   !.result = IF c.cur = Null \/ ~h[c.cur].is_value_node THEN Absent
                              ELSE IF ~DynamicCast(h[c.cur], c.type) THEN Absent
                              ELSE Found(h[c.cur].value)]

\* The call of thread t.
Call(t) == calls.t[t]

\* A step of thread t that changes its local variables only.
Local(t, c) ==
    /\ calls' = [calls EXCEPT !.t[t] = c]
    /\ UNCHANGED <<heap, versions, log>>

\* A step of thread t that changes the heap too.
Shared(t, r) ==
    /\ calls' = [calls EXCEPT !.t[t] = r.c]
    /\ heap' = r.heap
    /\ UNCHANGED <<versions, log>>

WalkAct(t) == Call(t).pc = "walk" /\ Local(t, WalkStep(heap, Call(t)))

LeafAct(t) == Call(t).pc = "leaf" /\ Shared(t, LeafStep(heap, Call(t)))

InnerAct(t) == Call(t).pc = "inner" /\ Shared(t, InnerStep(heap, Call(t)))

CheckAct(t) == Call(t).pc = "check" /\ Local(t, CheckStep(heap, Call(t)))

EndAct(t) == Call(t).pc = "end" /\ Shared(t, EndStep(heap, Call(t)))

CloneAct(t) == Call(t).pc = "copy" /\ Shared(t, CloneStep(heap, Call(t)))

LinkAct(t) == Call(t).pc = "link" /\ Shared(t, LinkStep(heap, Call(t)))

\* return Trie(cur): the caller gets the new handle.
ReturnAct(t) ==
    /\ Call(t).pc = "ret"
    /\ versions' = Append(versions, Call(t).cur)
    /\ log' = Append(log, [kind |-> Call(t).op, hd |-> 1, key |-> Call(t).key,
                           type |-> Call(t).type, value |-> Call(t).value,
                           base |-> Len(calls.src.heap)])
    /\ calls' = [calls EXCEPT !.t[t].result = Call(t).cur, !.t[t].pc = "done"]
    /\ UNCHANGED heap

\* The reader calls Get<T>(key) on a version some call has returned.
GetStart(hd, key, T) ==
    /\ Call(Reader).pc = "idle"
    /\ calls' = [calls EXCEPT !.t[Reader] =
                    [Entry([op |-> "get", key |-> key, type |-> T, value |-> 0],
                           versions[hd], "get")
                        EXCEPT !.expect = Get(heap, versions[hd], key, T)]]
    /\ UNCHANGED <<heap, versions, log>>

GetAct == Call(Reader).pc = "get" /\ Local(Reader, GetStep(heap, Call(Reader)))

WriterNext(t) ==
    \/ WalkAct(t)
    \/ LeafAct(t)
    \/ InnerAct(t)
    \/ CheckAct(t)
    \/ EndAct(t)
    \/ CloneAct(t)
    \/ LinkAct(t)
    \/ ReturnAct(t)

ReaderNext ==
    \/ \E hd \in DOMAIN versions, key \in ConcKeys, T \in Types : GetStart(hd, key, T)
    \/ GetAct

NextConc ==
    \/ \E t \in Writers : WriterNext(t)
    \/ ReaderNext

SpecConc == InitConc /\ [][NextConc]_vars

\* Every thread that can take a step takes one in the end: the threads run
\* on processors that do not stop.
SpecConcFair ==
    /\ SpecConc
    /\ \A t \in Writers : WF_vars(WriterNext(t))
    /\ WF_vars(ReaderNext)

\* A trie as a value, without the identities of its nodes: the node at the
\* root with, for every entry, the trie below it.
NoTree == [is_value_node |-> FALSE, type |-> "nullptr", value |-> 0,
           children |-> EmptyChildren]

RECURSIVE Tree(_, _)
Tree(h, n) ==
    IF n = Null THEN NoTree
    ELSE [is_value_node |-> h[n].is_value_node, type |-> h[n].type,
          value |-> h[n].value,
          children |-> [c \in DOMAIN h[n].children |-> Tree(h, h[n].children[c])]]

\* What the call of thread t returns when it runs alone on the source.
Alone(t) ==
    IF Call(t).op = "put"
    THEN PutOp(calls.src.heap, calls.src.root, Call(t).key, Call(t).type, Call(t).value)
    ELSE RemoveOp(calls.src.heap, calls.src.root, Call(t).key)

\* The source version is as it was when the calls began.
SourceUnchanged ==
    /\ versions[1] = calls.src.root
    /\ \A n \in DOMAIN calls.src.heap : heap[n] = calls.src.heap[n]
    /\ Tree(heap, versions[1]) = Tree(calls.src.heap, calls.src.root)

\* C15: of two Put/Remove calls on the same source whose steps interleave,
\* each returns the version it returns when run alone (the same trie, and
\* the source's own root when alone it returns the source); the returned
\* version is made of nodes of the source and nodes the call allocated, none
\* of the other call; the source is unchanged.
C15_ConcurrentWritersIndependent ==
    /\ SourceUnchanged
    /\ \A t \in Writers :
          Call(t).pc = "done" =>
              LET a == Alone(t) IN
              /\ Tree(heap, Call(t).result) = Tree(a.heap, a.root)
              /\ (a.root = calls.src.root) = (Call(t).result = calls.src.root)
              /\ Reach(heap, Call(t).result)
                    \subseteq Reach(calls.src.heap, calls.src.root) \cup Call(t).mine
              /\ \A k \in ProbeKeys, T \in Types :
                    Get(heap, Call(t).result, k, T) = Get(a.heap, a.root, k, T)

\* Both calls have returned a new version, their keys differ, and their
\* allocations interleaved.
C15_Witness ==
    /\ \A t \in Writers : Call(t).pc = "done" /\ Call(t).result # calls.src.root
    /\ Call("w1").key # Call("w2").key
    /\ calls.src.root # Null
    /\ \E x \in Call("w1").mine, y \in Call("w2").mine, z \in Call("w1").mine :
          x < y /\ y < z

\* The roots of the versions the callers hold.
Published == {versions[i] : i \in DOMAIN versions}

\* C16: a Get whose steps interleave with the steps of Put/Remove calls
\* returns what a Get run alone on its version returns (when it began and
\* when it ends); no step writes a node reachable from a returned version.
C16_ReaderIsolated ==
    [][/\ \A r \in Published : \A n \in Reach(heap, r) : heap'[n] = heap[n]
       /\ calls'.t[Reader].pc = "done" =>
             /\ calls'.t[Reader].result = calls'.t[Reader].expect
             /\ calls'.t[Reader].result =
                   Get(heap', calls'.t[Reader].root, calls'.t[Reader].key,
                       calls'.t[Reader].type)]_vars

\* A Get that found a value in a version returned by one call, and ended
\* while the other call was between the clone and the write of its entry.
C16_Witness ==
    /\ Call(Reader).pc = "done" /\ Call(Reader).result.found
    /\ Call(Reader).walks > 0
    /\ Call(Reader).root # calls.src.root
    /\ \E t \in Writers : Call(t).pc = "link"

\* The loops of the calls: the walk runs at most once for each character;
\* the copy loop runs at most once for each recorded node and, when the call
\* leaves it, has run exactly once for each.
LoopCounts ==
    \A t \in Writers \cup {Reader} :
        /\ Call(t).walks <= Len(Call(t).key)
        /\ Call(t).walks = Len(Call(t).node_stack) \/ t = Reader
        /\ Call(t).copies <= Len(Call(t).node_stack)
        /\ (Call(t).pc \in {"ret", "done"} /\ Call(t).rebuilt) =>
               /\ Call(t).copies = Len(Call(t).node_stack)
               /\ Call(t).i = SIZE_MAX

AllDone == \A t \in Writers \cup {Reader} : Call(t).pc = "done"

\* C17: every Get, Put and Remove returns; the walk loop runs at most len(key)
\* times and the copy loops, whose unsigned index wraps below zero, run once
\* for each recorded path node and stop.
C17_Terminates == <>AllDone /\ []LoopCounts

\* All calls have returned: a call on the empty key, and a call whose copy
\* loop ran twice.
C17_Witness ==
    /\ AllDone
    /\ \E t \in Writers : Call(t).key = <<>> /\ Call(t).rebuilt
    /\ \E t \in Writers : Call(t).copies = 2

====
